---- MODULE Spec2Model ----
(***************************************************************************)
(* The classification / undo engine of backend/main.py: files are moved    *)
(* from a feeder directory into classified/<category>, every move is       *)
(* recorded in the in-memory list MOVE_HISTORY, and undo moves a file      *)
(* back.  The filesystem is shared with the outside world, which may       *)
(* place and delete files between two requests.  Each request handler      *)
(* runs to completion as one step (the handlers contain no await).         *)
(***************************************************************************)
EXTENDS Integers, Sequences, FiniteSets, TLC

VARIABLES
    fs,            \* the files on disk: [occupied path -> file identity]
    dirs,          \* the directories that exist
    MOVE_HISTORY,  \* main.py:57, list of {image_id, original_path, new_path}
    nextFile,      \* identity the next externally placed file gets
    last,          \* the last request served and its response
    prior,         \* <<r>> when the request before `last` was a successful
                   \* classify or undo, r describing it, else << >>
    relocated,     \* relocated[i]: the file that the classify recorded in
                   \* MOVE_HISTORY[i] moved (kept for the properties only)
    cat_names,     \* main.py:45, CAT_NAMES as discovered when the process
                   \* started
    run,           \* the run of scripts/prune_by_minute.py in progress
    st_mtime,      \* [path -> modification time] of the files the pruning
                   \* script looks at
    tasks          \* the requests the event loop holds, each pending or
                   \* done

vars == <<fs, dirs, MOVE_HISTORY, nextFile, last, prior, relocated,
          cat_names, run, st_mtime, tasks>>

(***************************************************************************)
(* Bounds of the model.                                                    *)
(***************************************************************************)
MaxFiles == 2      \* number of distinct files that ever exist
MaxBatch == 3      \* same-named captures classified one after another
MaxTaken == 3      \* largest n of a name a_<n> taken in the category folder
MaxOffset == 3     \* largest offset asked of list_images

(***************************************************************************)
(* Paths.  A path is [parent, base, sfx, ext]: the file name is            *)
(* base ++ "_n1" ++ "_n2" ... ++ ext with sfx = <<n1, n2, ...>>, so that   *)
(* Path.stem is (base, sfx) and Path.suffix is ext.  A file called         *)
(* a_1.jpg is the same name whether it was given that name by its camera   *)
(* or by _unique_path.                                                     *)
(***************************************************************************)
CLASSIFIED_ROOT == <<"classified">>
FEEDER == <<"officefeeder1", "cats">>

MkPath(parent, base, sfx, ext) ==
    [parent |-> parent, base |-> base, sfx |-> sfx, ext |-> ext]

\* path.with_name(f"{path.stem}_{i}{path.suffix}")
WithName(path, i) == [path EXCEPT !.sfx = Append(@, i)]

\* target_dir / orig_path.name
InDir(target_dir, path) == [path EXCEPT !.parent = target_dir]

\* Path.exists()
Exists(disk, path) == path \in DOMAIN disk

RECURSIVE FirstFree(_, _, _)
FirstFree(disk, path, i) ==
    LET candidate == WithName(path, i)
    IN  IF ~Exists(disk, candidate) THEN candidate
        ELSE FirstFree(disk, path, i + 1)

\* A _unique_path that skips the occupancy check.
UniquePathClobber(disk, path) == path

\* A _unique_path that tries _1 only, without the loop.
UniquePathNoLoop(disk, path) ==
    IF ~Exists(disk, path) THEN path ELSE WithName(path, 1)

\* _unique_path: path itself when free, else the first free path_1, path_2, ...
UniquePath(disk, path) ==
    IF ~Exists(disk, path) THEN path ELSE FirstFree(disk, path, 1)

\* shutil.move(src, dst) of a file within one filesystem: a rename, which
\* replaces whatever file is at dst.
Move(disk, src, dst) ==
    [p \in (DOMAIN disk \ {src}) \cup {dst} |->
        IF p = dst THEN disk[src] ELSE disk[p]]

(***************************************************************************)
(* Categories.                                                             *)
(***************************************************************************)
CAT_NAMES == <<"tom">>
SPECIAL_CATEGORIES == <<"unknown", "not_a_cat">>
Range(s) == {s[i] : i \in 1..Len(s)}
VALID_CATEGORIES == Range(CAT_NAMES \o SPECIAL_CATEGORIES)

(***************************************************************************)
(* Image ids.  An id is the sequence of its '|'-separated segments:        *)
(* <<uuid, path>> as list_images mints it, <<text>> when it holds no '|'.  *)
(***************************************************************************)
\* image_id.split('|', 1) raises ValueError on unpacking fewer than 2 parts
SplitOk(image_id) == Len(image_id) >= 2
OrigPathOf(image_id) == image_id[2]

SOURCE_PATH == MkPath(FEEDER, "a", << >>, ".jpg")

\* The image ids a client may send: a token without '|', or a uuid joined
\* to a path of the feeder directory as list_images mints it.  Under the
\* first uuid the path is the feeder path, that of a file now in the
\* feeder, or one a record of the history still carries (the file has left
\* the feeder since); a second listing of the feeder path gave it a second
\* uuid.
InFeeder(disk) == {p \in DOMAIN disk : p.parent = FEEDER}
Recorded(history) == {history[i].original_path : i \in 1..Len(history)}
ImageIds(disk, history) ==
    {<<"u1">>, <<"u2", SOURCE_PATH>>} \cup
    {<<"u1", p>> :
        p \in {SOURCE_PATH} \cup InFeeder(disk) \cup Recorded(history)}

\* The category names a client may send; "bogus" is in no registry.
RequestCategories == {"unknown", "bogus"}

(***************************************************************************)
(* Responses.  status is "ok" or the failure kind; the HTTP code and       *)
(* detail the handler raises are noted where each is produced.  ret is     *)
(* <<path>> for stored_at / restored_to; moved is <<src, dst>> when        *)
(* shutil.move ran to completion, else << >>.                              *)
(***************************************************************************)
Response(op, image_id, category, status, ret, moved) ==
    [op |-> op, image_id |-> image_id, category |-> category,
     status |-> status, ret |-> ret, moved |-> moved]

\* What `prior` becomes once the next request has been served: the request
\* `l` just before it, the file it moved (0 when none) and the history
\* as it was before `l`.
PriorOf(l, disk, history) ==
    IF l.op = "classify" /\ l.status = "ok"
    THEN <<[op |-> "classify", image_id |-> l.image_id, ret |-> l.ret,
            file |-> disk[l.moved[2]],
            before |-> SubSeq(history, 1, Len(history) - 1)]>>
    ELSE IF l.op = "undo" /\ l.status = "ok"
    THEN <<[op |-> "undo", image_id |-> l.image_id, ret |-> l.ret,
            file |-> IF l.moved = << >> THEN 0 ELSE disk[l.moved[2]],
            before |-> << >>]>>
    ELSE << >>

(***************************************************************************)
(* classify, main.py:102-124                                               *)
(***************************************************************************)
\* The checks without the test that the source exists.
ClassifyCheckNoSource(disk, image_id, category) ==
    IF category \notin VALID_CATEGORIES THEN "InvalidCategory"
    ELSE IF ~SplitOk(image_id) THEN "MalformedReference"
    ELSE "ok"

\* The checks with the image id decoded before the category is looked up.
ClassifyCheckSplitFirst(disk, image_id, category) ==
    IF ~SplitOk(image_id) THEN "MalformedReference"
    ELSE IF category \notin VALID_CATEGORIES THEN "InvalidCategory"
    ELSE IF ~Exists(disk, OrigPathOf(image_id)) THEN "SourceNotFound"
    ELSE "ok"

\* The checks that precede any effect (main.py:104-112), in order.
ClassifyCheck(disk, image_id, category) ==
    IF category \notin VALID_CATEGORIES THEN "InvalidCategory"          \* 400
    ELSE IF ~SplitOk(image_id) THEN "MalformedReference"                \* 400
    ELSE IF ~Exists(disk, OrigPathOf(image_id)) THEN "SourceNotFound"   \* 404
    ELSE "ok"

Classify(image_id, category, io_ok) ==
    LET check == ClassifyCheck(fs, image_id, category)
        orig_path == OrigPathOf(image_id)
        target_dir == Append(CLASSIFIED_ROOT, category)
        target_path == UniquePath(fs, InDir(target_dir, orig_path))
    IN  /\ prior' = PriorOf(last, fs, MOVE_HISTORY)
        /\ nextFile' = nextFile
        /\ UNCHANGED <<cat_names, run, st_mtime>>
        /\ IF check # "ok"
           THEN /\ UNCHANGED <<fs, dirs, MOVE_HISTORY, relocated>>
                /\ last' = Response("classify", image_id, category, check,
                                    << >>, << >>)
           ELSE /\ dirs' = dirs \cup {target_dir}
                /\ IF io_ok /\ Exists(fs, orig_path)
                   THEN /\ fs' = Move(fs, orig_path, target_path)
                        /\ MOVE_HISTORY' = Append(MOVE_HISTORY,
                              [image_id |-> image_id,
                               original_path |-> orig_path,
                               new_path |-> target_path])
                        /\ relocated' = Append(relocated, fs[orig_path])
                        /\ last' = Response("classify", image_id, category,
                                            "ok", <<target_path>>,
                                            <<orig_path, target_path>>)
                   ELSE \* shutil.move raised: 500 'Failed to move file'
                        /\ UNCHANGED <<fs, MOVE_HISTORY, relocated>>
                        /\ last' = Response("classify", image_id, category,
                                            "RelocationFailed", << >>, << >>)

(***************************************************************************)
(* undo, main.py:126-145                                                   *)
(***************************************************************************)
\* for i in range(len(MOVE_HISTORY)-1, -1, -1): the last index (1-based)
\* whose record carries image_id, 0 when there is none.
RECURSIVE ScanBack(_, _, _)
ScanBack(history, image_id, i) ==
    IF i = 0 THEN 0
    ELSE IF history[i].image_id = image_id THEN i
    ELSE ScanBack(history, image_id, i - 1)

\* A scan from the front: the first record carrying image_id.
FindFirst(history, image_id) ==
    LET hits == {i \in 1..Len(history) : history[i].image_id = image_id}
    IN  IF hits = {} THEN 0 ELSE CHOOSE i \in hits : \A j \in hits : i <= j

\* A scan that forgets to compare image ids: the last record, whosever.
FindLastOfAny(history, image_id) == Len(history)

FindLast(history, image_id) == ScanBack(history, image_id, Len(history))

\* MOVE_HISTORY.pop(i)
Pop(history, i) ==
    SubSeq(history, 1, i - 1) \o SubSeq(history, i + 1, Len(history))

\* orig_path if not orig_path.exists() else _unique_path(orig_path)
RestorePath(disk, orig_path) ==
    IF ~Exists(disk, orig_path) THEN orig_path ELSE UniquePath(disk, orig_path)

\* 'restored_to': str(orig_path)
RestoredTo(orig_path, restore_path) == orig_path

Undo(image_id, io_ok) ==
    LET i == FindLast(MOVE_HISTORY, image_id)
    IN  /\ prior' = PriorOf(last, fs, MOVE_HISTORY)
        /\ nextFile' = nextFile
        /\ UNCHANGED <<cat_names, run, st_mtime>>
        /\ IF i = 0
           THEN \* 404 'No move to undo for image'
                /\ UNCHANGED <<fs, dirs, MOVE_HISTORY, relocated>>
                /\ last' = Response("undo", image_id, "", "NoSuchMove",
                                    << >>, << >>)
           ELSE LET m == MOVE_HISTORY[i]
                    new_path == m.new_path
                    orig_path == m.original_path
                    restore_path == RestorePath(fs, orig_path)
                IN  IF Exists(fs, new_path)
                    THEN /\ dirs' = dirs \cup {orig_path.parent}
                         /\ IF io_ok
                            THEN /\ fs' = Move(fs, new_path, restore_path)
                                 /\ MOVE_HISTORY' = Pop(MOVE_HISTORY, i)
                                 /\ relocated' = Pop(relocated, i)
                                 /\ last' = Response("undo", image_id, "", "ok",
                                      <<RestoredTo(orig_path, restore_path)>>,
                                      <<new_path, restore_path>>)
                            ELSE \* 500 'Failed to restore file'
                                 /\ UNCHANGED <<fs, MOVE_HISTORY, relocated>>
                                 /\ last' = Response("undo", image_id, "",
                                      "RestoreFailed", << >>, << >>)
                    ELSE \* nothing at new_path: no move, the record is
                         \* popped all the same and the response is ok
                         /\ UNCHANGED <<fs, dirs>>
                         /\ MOVE_HISTORY' = Pop(MOVE_HISTORY, i)
                         /\ relocated' = Pop(relocated, i)
                         /\ last' = Response("undo", image_id, "", "ok",
                              <<RestoredTo(orig_path, orig_path)>>, << >>)

(***************************************************************************)
(* The outside world: cameras drop a new capture at the feeder path, and   *)
(* anyone may delete a file.                                               *)
(***************************************************************************)
PlaceCapture(limit) ==
    /\ nextFile <= limit
    /\ ~Exists(fs, SOURCE_PATH)
    /\ fs' = [p \in DOMAIN fs \cup {SOURCE_PATH} |->
                IF p = SOURCE_PATH THEN nextFile ELSE fs[p]]
    /\ nextFile' = nextFile + 1
    /\ dirs' = dirs \cup {FEEDER}
    /\ last' = Response("external", << >>, "", "ok", << >>, << >>)
    /\ prior' = << >>
    /\ UNCHANGED <<MOVE_HISTORY, relocated, cat_names, run,
                   st_mtime, tasks>>

ExternalPlace == PlaceCapture(MaxFiles)

ExternalDelete(path) ==
    /\ Exists(fs, path)
    /\ fs' = [p \in DOMAIN fs \ {path} |-> fs[p]]
    /\ last' = Response("external", << >>, "", "ok", << >>, << >>)
    /\ prior' = << >>
    /\ UNCHANGED <<dirs, MOVE_HISTORY, nextFile, relocated, cat_names, run,
                   st_mtime, tasks>>

(***************************************************************************)
(* Start of the process: CLASSIFIED_ROOT exists (main.py:21), the history  *)
(* is empty, and the disk holds a capture in the feeder and possibly a     *)
(* file of the same name classified by an earlier run of the process.      *)
(***************************************************************************)
\* No run of the pruning script is in progress.
NoRun == [pc |-> "none"]

EARLIER_PATH == MkPath(Append(CLASSIFIED_ROOT, "unknown"), "a", << >>, ".jpg")

Init ==
    /\ \/ /\ fs = (SOURCE_PATH :> 1)
          /\ dirs = {CLASSIFIED_ROOT, FEEDER}
          /\ nextFile = 2
       \/ /\ fs = (SOURCE_PATH :> 1) @@ (EARLIER_PATH :> 2)
          /\ dirs = {CLASSIFIED_ROOT, FEEDER, EARLIER_PATH.parent}
          /\ nextFile = 3
    /\ MOVE_HISTORY = << >>
    /\ last = Response("start", << >>, "", "ok", << >>, << >>)
    /\ prior = << >>
    /\ relocated = << >>
    /\ cat_names = CAT_NAMES
    /\ run = NoRun
    /\ st_mtime = << >>
    /\ tasks = << >>

DoClassify ==
    /\ \E image_id \in ImageIds(fs, MOVE_HISTORY),
          category \in RequestCategories, io_ok \in BOOLEAN :
            Classify(image_id, category, io_ok)
    /\ UNCHANGED tasks

DoUndo ==
    /\ \E image_id \in ImageIds(fs, MOVE_HISTORY), io_ok \in BOOLEAN :
          Undo(image_id, io_ok)
    /\ UNCHANGED tasks

DoExternalDelete == \E path \in DOMAIN fs : ExternalDelete(path)

Next == DoClassify \/ DoUndo \/ ExternalPlace \/ DoExternalDelete

Spec == Init /\ [][Next]_vars

(***************************************************************************)
(* _unique_path on its own: the category folder starts with any subset of  *)
(* the names a, a_1, ..., a_MaxTaken taken by files of an earlier run, and *)
(* the captures that the camera drops at the feeder path one after another *)
(* are classified into that folder.                                        *)
(***************************************************************************)
TARGET_DIR == Append(CLASSIFIED_ROOT, "unknown")
TARGET_PATH == InDir(TARGET_DIR, SOURCE_PATH)
NthName(j) == IF j = 1 THEN TARGET_PATH ELSE WithName(TARGET_PATH, j - 1)
TakenNames == {NthName(j) : j \in 1..(MaxTaken + 1)}

\* Files of the earlier run carry identities above every capture's.
EarlierFile(path) == 100 + (IF path.sfx = << >> THEN 0 ELSE path.sfx[1])

InitPaths ==
    /\ \E taken \in SUBSET TakenNames :
          /\ fs = [p \in taken \cup {SOURCE_PATH} |->
                     IF p = SOURCE_PATH THEN 1 ELSE EarlierFile(p)]
          /\ dirs = {CLASSIFIED_ROOT, FEEDER} \cup
                    (IF taken = {} THEN {} ELSE {TARGET_DIR})
    /\ nextFile = 2
    /\ MOVE_HISTORY = << >>
    /\ last = Response("start", << >>, "", "ok", << >>, << >>)
    /\ prior = << >>
    /\ relocated = << >>
    /\ cat_names = CAT_NAMES
    /\ run = NoRun
    /\ st_mtime = << >>
    /\ tasks = << >>

ClassifyCapture ==
    Classify(<<"u1", SOURCE_PATH>>, "unknown", TRUE) /\ UNCHANGED tasks
NextCapture == PlaceCapture(MaxBatch)

NextPaths == ClassifyCapture \/ NextCapture

SpecPaths == InitPaths /\ [][NextPaths]_vars

(***************************************************************************)
(* Properties of the engine.                                               *)
(***************************************************************************)
Files(disk) == {disk[p] : p \in DOMAIN disk}
PathsOf(disk, f) == {p \in DOMAIN disk : disk[p] = f}
RecordsOf(history, image_id) ==
    {i \in 1..Len(history) : history[i].image_id = image_id}
Max(S) == CHOOSE x \in S : \A y \in S : y <= x

\* C1: a classify or undo step never overwrites a file: every file on disk
\* before the step is on disk after it at exactly one path, every path
\* occupied before and after holds the same file, and the step's move, if
\* any, went to a path that was free.
C1_NoClobber ==
    [][last'.op \in {"classify", "undo"} =>
        /\ \A f \in Files(fs) : Cardinality(PathsOf(fs', f)) = 1
        /\ \A p \in DOMAIN fs \cap DOMAIN fs' : fs'[p] = fs[p]
        /\ last'.moved # << >> => ~Exists(fs, last'.moved[2])]_vars

\* C1 witness: a classify met an occupied destination and both files are
\* still there.
C1_Witness ==
    /\ last.op = "classify" /\ last.status = "ok"
    /\ last.ret[1].sfx = <<1>>
    /\ Exists(fs, [last.ret[1] EXCEPT !.sfx = << >>])
    /\ Cardinality(Files(fs)) = 2

\* C2: when undo(reference) is served right after a successful
\* classify(reference, category) and its move meets no I/O error, it
\* succeeds, the file classify moved is back at the original path, the
\* category destination is free again and the history is what it was before
\* the classify.
C2_ClassifyUndoRoundTrip ==
    (/\ last.op = "undo" /\ last.status # "RestoreFailed"
     /\ prior # << >> /\ prior[1].op = "classify"
     /\ prior[1].image_id = last.image_id)
    => /\ last.status = "ok"
       /\ Exists(fs, OrigPathOf(last.image_id))
       /\ fs[OrigPathOf(last.image_id)] = prior[1].file
       /\ ~Exists(fs, prior[1].ret[1])
       /\ MOVE_HISTORY = prior[1].before

\* C2 witness: such an undo happened while an older record of the same
\* reference stayed in the history.
C2_Witness ==
    /\ last.op = "undo" /\ last.status = "ok" /\ last.moved # << >>
    /\ prior # << >> /\ prior[1].op = "classify"
    /\ prior[1].image_id = last.image_id
    /\ RecordsOf(MOVE_HISTORY, last.image_id) # {}

\* C3: on every disk, for every candidate path, _unique_path returns a path
\* that does not exist: the candidate when it is free, else candidate_n for
\* the smallest n >= 1 that is free.  The captures classified one after
\* another hold pairwise distinct paths, and when the folder was empty at
\* the start the j-th of them is at a, a_1, a_2, ... in that order.
CandidatePaths ==
    {MkPath(d, "a", sfx, ".jpg") :
        d \in {FEEDER, TARGET_DIR},
        sfx \in {<< >>} \cup {<<n>> : n \in 1..MaxTaken}}

IsFirstFree(disk, candidate, result) ==
    /\ ~Exists(disk, result)
    /\ ~Exists(disk, candidate) => result = candidate
    /\ Exists(disk, candidate) =>
          \E n \in 1..(Cardinality(DOMAIN disk) + 1) :
              /\ result = WithName(candidate, n)
              /\ \A k \in 1..(n - 1) : Exists(disk, WithName(candidate, k))

Classified(disk) == {p \in DOMAIN disk : p.parent = TARGET_DIR}
NewPaths(history) == {history[j].new_path : j \in 1..Len(history)}

C3_UniquePath ==
    /\ \A c \in CandidatePaths : IsFirstFree(fs, c, UniquePath(fs, c))
    /\ \A i, j \in 1..Len(MOVE_HISTORY) :
          i # j =>
            /\ MOVE_HISTORY[i].new_path # MOVE_HISTORY[j].new_path
            /\ fs[MOVE_HISTORY[i].new_path] # fs[MOVE_HISTORY[j].new_path]
    /\ Classified(fs) = NewPaths(MOVE_HISTORY) =>
          \A j \in 1..Len(MOVE_HISTORY) :
              MOVE_HISTORY[j].new_path = NthName(j)

\* C3 witness: three captures were classified into the empty folder and
\* are at a, a_1 and a_2.
C3_Witness ==
    /\ Len(MOVE_HISTORY) = 3
    /\ Classified(fs) = {NthName(1), NthName(2), NthName(3)}
    /\ \A j \in 1..3 : fs[NthName(j)] = j

\* C4: a classify with a valid category and a decodable reference whose
\* source path does not exist fails with SourceNotFound and changes neither
\* the disk nor the history; so does a classify of the reference that the
\* request just before it classified successfully.
C4_SourceNotFound ==
    [][(/\ last'.op = "classify"
        /\ last'.category \in VALID_CATEGORIES
        /\ SplitOk(last'.image_id)
        /\ \/ ~Exists(fs, OrigPathOf(last'.image_id))
           \/ /\ last.op = "classify" /\ last.status = "ok"
              /\ last.image_id = last'.image_id)
       => /\ last'.status = "SourceNotFound"
          /\ fs' = fs
          /\ MOVE_HISTORY' = MOVE_HISTORY]_vars

\* C4 witness: a reference was redeemed a second time right after its
\* successful classify and the second request got SourceNotFound.
C4_Witness ==
    /\ last.op = "classify" /\ last.status = "SourceNotFound"
    /\ prior # << >> /\ prior[1].op = "classify"
    /\ prior[1].image_id = last.image_id

\* C5: an undo of a reference whose only record names a new location that
\* no longer exists fails with NoSuchMove.
C5_UndoOfVanishedFails ==
    [][(/\ last'.op = "undo"
        /\ Cardinality(RecordsOf(MOVE_HISTORY, last'.image_id)) = 1
        /\ \A i \in RecordsOf(MOVE_HISTORY, last'.image_id) :
              ~Exists(fs, MOVE_HISTORY[i].new_path))
       => last'.status = "NoSuchMove"]_vars

\* C6: an undo of a reference with several records, one of which names a
\* new location that exists, reverses the most recent such record (or fails on the I/O error of that
\* move): the file moved is the one at that record's new location and that
\* record is the one removed.
C6_UndoSkipsVanished ==
    [][LET live == {i \in RecordsOf(MOVE_HISTORY, last'.image_id) :
                      Exists(fs, MOVE_HISTORY[i].new_path)}
       IN  (/\ last'.op = "undo"
            /\ Cardinality(RecordsOf(MOVE_HISTORY, last'.image_id)) >= 2
            /\ live # {})
           => \/ last'.status = "RestoreFailed"
              \/ /\ last'.status = "ok"
                 /\ last'.moved # << >>
                 /\ last'.moved[1] = MOVE_HISTORY[Max(live)].new_path
                 /\ MOVE_HISTORY' = Pop(MOVE_HISTORY, Max(live))]_vars

\* C7: a successful undo that moved a file returns the path the file was
\* moved to.
C7_UndoReturnsRestoredPath ==
    (last.op = "undo" /\ last.status = "ok" /\ last.moved # << >>)
    => last.ret = <<last.moved[2]>>

\* C8: an undo of a reference that no record of the history carries fails
\* with NoSuchMove and changes neither the history, the disk nor the
\* directories.
C8_UndoWithoutRecord ==
    [][(last'.op = "undo" /\ RecordsOf(MOVE_HISTORY, last'.image_id) = {})
       => /\ last'.status = "NoSuchMove"
          /\ MOVE_HISTORY' = MOVE_HISTORY
          /\ fs' = fs
          /\ dirs' = dirs]_vars

\* C8 witness: the reference's only record was undone by the request just
\* before, other records remain, and the second undo got NoSuchMove.
C8_Witness ==
    /\ last.op = "undo" /\ last.status = "NoSuchMove"
    /\ prior # << >> /\ prior[1].op = "undo"
    /\ prior[1].image_id = last.image_id
    /\ MOVE_HISTORY # << >>

\* C9: the history changes only by a successful classify appending the
\* record of the move it made, or by a successful undo removing the one
\* record whose move it reversed; every other request leaves it unchanged.
C9_LedgerFrame ==
    [][MOVE_HISTORY' # MOVE_HISTORY =>
        \/ /\ last'.op = "classify" /\ last'.status = "ok"
           /\ last'.moved # << >>
           /\ MOVE_HISTORY' = Append(MOVE_HISTORY,
                 [image_id |-> last'.image_id,
                  original_path |-> last'.moved[1],
                  new_path |-> last'.moved[2]])
        \/ /\ last'.op = "undo" /\ last'.status = "ok"
           /\ last'.moved # << >>
           /\ \E i \in RecordsOf(MOVE_HISTORY, last'.image_id) :
                 /\ MOVE_HISTORY[i].new_path = last'.moved[1]
                 /\ MOVE_HISTORY' = Pop(MOVE_HISTORY, i)]_vars

\* C10: a classify with a category outside VALID_CATEGORIES fails with
\* InvalidCategory whatever the reference, and creates no directory, moves
\* no file and leaves the history unchanged.
C10_InvalidCategoryFirst ==
    [][(last'.op = "classify" /\ last'.category \notin VALID_CATEGORIES)
       => /\ last'.status = "InvalidCategory"
          /\ dirs' = dirs
          /\ fs' = fs
          /\ MOVE_HISTORY' = MOVE_HISTORY]_vars

\* C10 witness: the rejected request carried a reference without '|', and
\* the category directory does not exist.
C10_Witness ==
    /\ last.op = "classify" /\ last.status = "InvalidCategory"
    /\ ~SplitOk(last.image_id)
    /\ Append(CLASSIFIED_ROOT, "unknown") \notin dirs

\* C17: the file an undo moves is a file that a classify recorded under the
\* same reference relocated; a different file that has come to occupy the
\* record's new location is not moved.
C17_UndoMovesOwnFile ==
    [][(last'.op = "undo" /\ last'.moved # << >>)
       => fs[last'.moved[1]] \in
            {relocated[i] : i \in RecordsOf(MOVE_HISTORY, last'.image_id)}]_vars

(***************************************************************************)
(* The category registry, main.py:31-47 and 160-196.  The reference        *)
(* folder holds any subset of the files named in REFERENCE_NAMES, which    *)
(* lists them in the order sorted() gives their paths (code-point order    *)
(* of the names: upper case before '_' before lower case).                 *)
(***************************************************************************)
REFERENCE_DIR == <<"reference">>

REFERENCE_NAMES ==
    <<[base |-> "Tom",       ext |-> ".JPG"],
      [base |-> "not_a_cat", ext |-> ".jpg"],
      [base |-> "not_cat",   ext |-> ".jpg"],
      [base |-> "notes",     ext |-> ".txt"],
      [base |-> "rex",       ext |-> ".png"],
      [base |-> "tom",       ext |-> ".jpg"],
      [base |-> "tom",       ext |-> ".png"],
      [base |-> "unknown",   ext |-> ".jpg"]>>

ReferencePath(base, ext) == MkPath(REFERENCE_DIR, base, << >>, ext)

\* str.lower() on the stems and suffixes of the file names of the model
Lower(str) ==
    CASE str = "Tom" -> "tom"
      [] str = ".JPG" -> ".jpg"
      [] str = ".PNG" -> ".png"
      [] OTHER -> str

\* str.capitalize() on the category names
Capitalize(str) ==
    CASE str = "tom" -> "Tom"
      [] str = "rex" -> "Rex"
      [] str = "not_a_cat" -> "Not_a_cat"
      [] str = "not_cat" -> "Not_cat"
      [] str = "unknown" -> "Unknown"
      [] str = "notes" -> "Notes"
      [] OTHER -> str

IMAGE_EXTS == {".jpg", ".jpeg", ".png", ".webp", ".gif"}

\* sorted(REFERENCE_DIR.iterdir()): the entries of the folder in path order
SortedEntries(disk) ==
    LET present == {i \in 1..Len(REFERENCE_NAMES) :
                      Exists(disk, ReferencePath(REFERENCE_NAMES[i].base,
                                                 REFERENCE_NAMES[i].ext))}
        F[i \in 0..Len(REFERENCE_NAMES)] ==
            IF i = 0 THEN << >>
            ELSE IF i \in present
                 THEN Append(F[i - 1],
                             ReferencePath(REFERENCE_NAMES[i].base,
                                           REFERENCE_NAMES[i].ext))
                 ELSE F[i - 1]
    IN  F[Len(REFERENCE_NAMES)]

\* the stems _discover_cat_names passes over (main.py:39)
SKIPPED_STEMS == {"unknown", "not_cat"}

\* _discover_cat_names, main.py:33-42
DiscoverCatNames(disk, folders) ==
    LET entries == SortedEntries(disk)
        F[i \in 0..Len(entries)] ==
            IF i = 0 THEN << >>
            ELSE LET p == entries[i]
                     stem == Lower(p.base)
                 IN  IF /\ Exists(disk, p)                 \* p.is_file()
                        /\ Lower(p.ext) \in IMAGE_EXTS
                        /\ stem \notin SKIPPED_STEMS
                     THEN Append(F[i - 1], stem)
                     ELSE F[i - 1]
    IN  IF REFERENCE_DIR \in folders THEN F[Len(entries)] ELSE << >>

\* the reference image of a discovered name, main.py:166-177: name.jpg,
\* else the first of the other extensions that exists, else None (<< >>)
FALLBACK_EXTS == <<".jpeg", ".png", ".webp", ".gif">>

ReferenceOf(disk, name) ==
    LET found == {k \in 1..Len(FALLBACK_EXTS) :
                    Exists(disk, ReferencePath(name, FALLBACK_EXTS[k]))}
    IN  IF Exists(disk, ReferencePath(name, ".jpg"))
        THEN <<ReferencePath(name, ".jpg")>>
        ELSE IF found = {} THEN << >>
        ELSE <<ReferencePath(name,
                 FALLBACK_EXTS[CHOOSE k \in found : \A j \in found : k <= j])>>

\* the reference image of a special category, main.py:185-195
SpecialReferenceOf(disk, stem) ==
    IF Exists(disk, ReferencePath(stem, ".jpg"))
    THEN <<ReferencePath(stem, ".jpg")>> ELSE << >>

\* list_categories, main.py:160-196
ListCategories(names, disk) ==
    [i \in 1..Len(names) |->
        [key |-> names[i], label |-> Capitalize(names[i]),
         reference |-> ReferenceOf(disk, names[i])]]
    \o <<[key |-> "unknown", label |-> "Unknown",
          reference |-> SpecialReferenceOf(disk, "unknown")],
         [key |-> "not_a_cat", label |-> "Not a Cat",
          reference |-> SpecialReferenceOf(disk, "not_cat")]>>

\* GET /api/categories
GetCategories ==
    /\ last' = [op |-> "categories", status |-> "ok",
                categories |-> ListCategories(cat_names, fs)]
    /\ prior' = << >>
    /\ UNCHANGED <<fs, dirs, MOVE_HISTORY, nextFile, relocated, cat_names, run,
                   st_mtime, tasks>>

\* a reference image is removed while the process runs
RemoveReference ==
    \E path \in {p \in DOMAIN fs : p.parent = REFERENCE_DIR} :
        ExternalDelete(path)

\* Start of the process over any content of the reference folder, which
\* may not exist at all.
InitRegistry ==
    /\ \E present \in SUBSET (1..Len(REFERENCE_NAMES)), made \in BOOLEAN :
          /\ made \/ present = {}
          /\ fs = [p \in {ReferencePath(REFERENCE_NAMES[i].base,
                                         REFERENCE_NAMES[i].ext) :
                             i \in present} |-> 1]
          /\ dirs = {CLASSIFIED_ROOT} \cup
                    (IF made THEN {REFERENCE_DIR} ELSE {})
    /\ cat_names = DiscoverCatNames(fs, dirs)
    /\ nextFile = 2
    /\ MOVE_HISTORY = << >>
    /\ last = Response("start", << >>, "", "ok", << >>, << >>)
    /\ prior = << >>
    /\ relocated = << >>
    /\ run = NoRun
    /\ st_mtime = << >>
    /\ tasks = << >>

NextRegistry == GetCategories \/ RemoveReference

SpecRegistry == InitRegistry /\ [][NextRegistry]_vars

RESERVED == {"unknown", "not_a_cat"}

\* C11: whatever the reference folder holds, no discovered category name
\* is a reserved identifier.
C11_NoReservedDiscovered ==
    \A i \in 1..Len(cat_names) : cat_names[i] \notin RESERVED

\* C19: the keys of the list that list_categories returns are pairwise
\* distinct, and the list ends with unknown, then not_a_cat.
C19_DistinctKeys ==
    last.op = "categories" =>
        LET cats == last.categories
            n == Len(cats)
        IN  /\ \A i, j \in 1..n : i # j => cats[i].key # cats[j].key
            /\ cats[n - 1].key = "unknown"
            /\ cats[n].key = "not_a_cat"

(***************************************************************************)
(* list_images, main.py:68-89.  The feeder folder holds any subset of the  *)
(* files named in LISTING_NAMES, given in the order sorted() gives them.   *)
(***************************************************************************)
LISTING_NAMES ==
    <<[base |-> "a", ext |-> ".jpg"],
      [base |-> "b", ext |-> ".PNG"],
      [base |-> "c", ext |-> ".txt"],
      [base |-> "d", ext |-> ".gif"],
      [base |-> "e", ext |-> ".jpg"],
      [base |-> "f", ext |-> ".webp"],
      [base |-> "g", ext |-> ".jpeg"]>>

ListingPath(i) ==
    MkPath(FEEDER, LISTING_NAMES[i].base, << >>, LISTING_NAMES[i].ext)

MAX_PAGE == 1000

Min2(a, b) == IF a <= b THEN a ELSE b
Max2(a, b) == IF a >= b THEN a ELSE b

\* seq[start:stop] as Python slices a list: a negative index counts from
\* the end, and both ends are cut to the list.
PySlice(seq, start, stop) ==
    LET n == Len(seq)
        lo == IF start < 0 THEN Max2(start + n, 0) ELSE Min2(start, n)
        hi == IF stop < 0 THEN Max2(stop + n, 0) ELSE Min2(stop, n)
    IN  SubSeq(seq, lo + 1, hi)

\* all_files, main.py:79: the image files of the folder in path order
AllFiles(disk) ==
    LET F[i \in 0..Len(LISTING_NAMES)] ==
            IF i = 0 THEN << >>
            ELSE IF /\ Exists(disk, ListingPath(i))        \* glob, is_file
                    /\ Lower(ListingPath(i).ext) \in IMAGE_EXTS
                 THEN Append(F[i - 1], ListingPath(i))
                 ELSE F[i - 1]
    IN  F[Len(LISTING_NAMES)]

\* if offset < 0: offset = 0
ClampOffset(offset) == IF offset < 0 THEN 0 ELSE offset

\* A clamp of limit from above only.
ClampLimitAboveOnly(limit) == Min2(limit, MAX_PAGE)

\* limit = max(1, min(limit, 1000))
ClampLimit(limit) == Max2(1, Min2(limit, MAX_PAGE))

\* list_images for a feeder/source folder that is `folder`
ListImages(disk, folders, folder, offset, limit) ==
    IF folder \notin folders
    THEN [op |-> "images", status |-> "DirectoryNotFound",   \* 404
          asked |-> <<offset, limit>>,
          images |-> << >>, total |-> 0, offset |-> 0, limit |-> 0]
    ELSE LET all_files == AllFiles(disk)
             off == ClampOffset(offset)
             lim == ClampLimit(limit)
             slice_files == PySlice(all_files, off, off + lim)
         IN  [op |-> "images", status |-> "ok",
              asked |-> <<offset, limit>>,
              \* each item carries a fresh uuid, numbered here by position
              images |-> [k \in 1..Len(slice_files) |->
                            [id |-> <<k, slice_files[k]>>,
                             filename |-> slice_files[k]]],
              total |-> Len(all_files), offset |-> off, limit |-> lim]

Offsets == (-1)..MaxOffset
Limits == {-1, 0, 1, 2, 3, MAX_PAGE, MAX_PAGE + 1}

\* GET /api/images
GetImages ==
    /\ \E folder \in {FEEDER, <<"nosuch", "cats">>},
          offset \in Offsets, limit \in Limits :
            last' = ListImages(fs, dirs, folder, offset, limit)
    /\ prior' = << >>
    /\ UNCHANGED <<fs, dirs, MOVE_HISTORY, nextFile, relocated, cat_names, run,
                   st_mtime, tasks>>

\* a file of the feeder folder is removed between two listings
RemoveListed ==
    \E path \in {p \in DOMAIN fs : p.parent = FEEDER} : ExternalDelete(path)

InitList ==
    /\ \E present \in SUBSET (1..Len(LISTING_NAMES)) :
          fs = [p \in {ListingPath(i) : i \in present} |-> 1]
    /\ dirs = {CLASSIFIED_ROOT, FEEDER}
    /\ cat_names = CAT_NAMES
    /\ nextFile = 2
    /\ MOVE_HISTORY = << >>
    /\ last = Response("start", << >>, "", "ok", << >>, << >>)
    /\ prior = << >>
    /\ relocated = << >>
    /\ run = NoRun
    /\ st_mtime = << >>
    /\ tasks = << >>

NextList == GetImages \/ RemoveListed

SpecList == InitList /\ [][NextList]_vars

\* The position of a listed path in path order.
ListingRank(path) ==
    CHOOSE i \in 1..Len(LISTING_NAMES) : ListingPath(i) = path

Eligible(disk) ==
    {p \in DOMAIN disk : p.parent = FEEDER /\ Lower(p.ext) \in IMAGE_EXTS}

\* the k-th returned file has exactly off + k - 1 eligible files before it
\* in path order, and `count` files are returned
IsWindow(disk, images, off, count) ==
    /\ Len(images) = count
    /\ \A k \in 1..Len(images) :
          /\ images[k].filename \in Eligible(disk)
          /\ Cardinality({p \in Eligible(disk) :
                ListingRank(p) < ListingRank(images[k].filename)})
             = off + k - 1

\* C12 as claimed: the window is [offset', offset' + limit') with
\* offset' = max(offset, 0) and limit' = min(limit, 1000), and total counts
\* every eligible file.
C12_WindowClampedAbove ==
    (last.op = "images" /\ last.status = "ok") =>
        LET off == Max2(last.asked[1], 0)
            lim == Min2(last.asked[2], MAX_PAGE)
            n == Cardinality(Eligible(fs))
        IN  /\ last.total = n
            /\ IsWindow(fs, last.images, off,
                        Max2(0, Min2(lim, n - off)))

\* C12 amended: the window is [offset', offset' + limit') with
\* offset' = max(offset, 0) and limit' = max(1, min(limit, 1000)), and
\* total counts every eligible file.
C12_WindowClamped ==
    (last.op = "images" /\ last.status = "ok") =>
        LET off == Max2(last.asked[1], 0)
            lim == Max2(1, Min2(last.asked[2], MAX_PAGE))
            n == Cardinality(Eligible(fs))
        IN  /\ last.total = n
            /\ last.offset = off
            /\ last.limit = lim
            /\ IsWindow(fs, last.images, off,
                        Max2(0, Min2(lim, n - off)))

\* C12 witness: offset 0 and limit 2 over five image files returned the
\* first two of them and total 5.
C12_Witness ==
    /\ last.op = "images" /\ last.status = "ok"
    /\ last.asked = <<0, 2>>
    /\ last.total = 5
    /\ Len(last.images) = 2
    /\ Exists(fs, ListingPath(3))

(***************************************************************************)
(* scripts/prune_by_minute.py.  The image directory holds any subset of    *)
(* the files named in PRUNE_NAMES, given in the order sorted() gives       *)
(* their paths.  A file name processed_<date>_<hms>_<n><ext> is held as    *)
(* its fields: date and hms are the sequences of the digit groups read     *)
(* (YYYY, MM, DD and HH, MM, SS), so a name with a four-digit time has an  *)
(* hms of two groups.                                                      *)
(***************************************************************************)
PRUNE_ROOT == <<"images">>
PRUNE_SUB == <<"images", "sub">>

PRUNE_NAMES ==
    <<[dir |-> PRUNE_ROOT, date |-> <<"2025", "08", "16">>,
       hms |-> <<"06", "01", "30">>, n |-> "000001", ext |-> ".jpg"],
      [dir |-> PRUNE_ROOT, date |-> <<"2025", "08", "16">>,
       hms |-> <<"06", "01", "53">>, n |-> "097913", ext |-> ".jpg"],
      [dir |-> PRUNE_ROOT, date |-> <<"2025", "08", "16">>,
       hms |-> <<"06", "01">>, n |-> "5", ext |-> ".jpg"],
      [dir |-> PRUNE_ROOT, date |-> <<"2025", "08", "16">>,
       hms |-> <<"06", "02", "59">>, n |-> "000002", ext |-> ".jpg"],
      [dir |-> PRUNE_SUB, date |-> <<"2025", "08", "16">>,
       hms |-> <<"06", "01", "10">>, n |-> "000004", ext |-> ".jpg"],
      [dir |-> PRUNE_SUB, date |-> <<"2025", "08", "16">>,
       hms |-> <<"06", "02", "59">>, n |-> "000009", ext |-> ".jpg"]>>

PrunePath(i) ==
    MkPath(PRUNE_NAMES[i].dir,
           [prefix |-> "processed", date |-> PRUNE_NAMES[i].date,
            hms |-> PRUNE_NAMES[i].hms, n |-> PRUNE_NAMES[i].n],
           << >>, PRUNE_NAMES[i].ext)

\* The position of a path of PRUNE_NAMES in sorted order.
PruneRank(path) ==
    CHOOSE i \in 1..Len(PRUNE_NAMES) : PrunePath(i) = path

MTIMES == {1, 2}

\* FILENAME_RE.match(name): processed_, eight digits, six digits, digits,
\* an alphanumeric extension
FilenameMatches(path) ==
    /\ path.base.prefix = "processed"
    /\ Len(path.base.date) = 3
    /\ Len(path.base.hms) = 3
    /\ path.base.n # ""
    /\ path.ext # ""

None == <<"None">>

\* minute_key: date and hms[:4], or None
MinuteKey(path) ==
    IF ~FilenameMatches(path) THEN None
    ELSE <<path.base.date, path.base.hms[1], path.base.hms[2]>>

PATTERNS == {"processed_*.jpg", "**/processed_*.jpg"}

\* root.glob(pattern) for the patterns of PATTERNS
GlobMatches(path, pattern) ==
    /\ path.base.prefix = "processed"
    /\ path.ext = ".jpg"
    /\ IF pattern = "processed_*.jpg" THEN path.parent = PRUNE_ROOT
       ELSE path.parent \in {PRUNE_ROOT, PRUNE_SUB}

\* collect_files: sorted(root.glob(pattern))
CollectFiles(disk, pattern) ==
    LET F[i \in 0..Len(PRUNE_NAMES)] ==
            IF i = 0 THEN << >>
            ELSE IF /\ Exists(disk, PrunePath(i))
                    /\ GlobMatches(PrunePath(i), pattern)
                 THEN Append(F[i - 1], PrunePath(i))
                 ELSE F[i - 1]
    IN  F[Len(PRUNE_NAMES)]

STRATEGIES == {"first_seen", "oldest", "newest"}

\* The files whose modification time is the least, the greatest.
Oldest(files, mt) ==
    {f \in Range(files) : \A g \in Range(files) : mt[f] <= mt[g]}
Newest(files, mt) ==
    {f \in Range(files) : \A g \in Range(files) : mt[f] >= mt[g]}

\* min(files, key) and max(files, key) of Python: the first of the files
\* whose key is the extreme
FirstIn(files, extreme) ==
    files[CHOOSE i \in 1..Len(files) :
            /\ files[i] \in extreme
            /\ \A j \in 1..(i - 1) : files[j] \notin extreme]

\* The last of the files whose key is the extreme.
LastIn(files, extreme) ==
    files[CHOOSE i \in 1..Len(files) :
            /\ files[i] \in extreme
            /\ \A j \in (i + 1)..Len(files) : files[j] \notin extreme]

\* What a call gives: a value returned, or the ValueError raised.
Returns(value) == [raised |-> FALSE, value |-> value]
Raises == [raised |-> TRUE]

\* choose_keep with min and max returning the last extreme.
ChooseKeepLast(files, strategy, mt) ==
    CASE strategy = "first_seen" -> Returns(files[1])
      [] strategy = "oldest" ->
            Returns(LastIn(files, Oldest(files, mt)))
      [] strategy = "newest" ->
            Returns(LastIn(files, Newest(files, mt)))
      [] OTHER -> Raises

\* choose_keep
ChooseKeep(files, strategy, mt) ==
    CASE strategy = "first_seen" -> Returns(files[1])
      [] strategy = "oldest" ->
            Returns(FirstIn(files, Oldest(files, mt)))
      [] strategy = "newest" ->
            Returns(FirstIn(files, Newest(files, mt)))
      [] OTHER -> Raises

\* groups.keys(): the minute keys in the order they are first seen
GroupKeys(all_files) ==
    LET K[i \in 0..Len(all_files)] ==
            IF i = 0 THEN << >>
            ELSE LET mk == MinuteKey(all_files[i])
                 IN  IF mk = None \/ mk \in Range(K[i - 1])
                     THEN K[i - 1]
                     ELSE Append(K[i - 1], mk)
    IN  K[Len(all_files)]

\* groups[mk]
GroupOf(all_files, mk) ==
    SelectSeq(all_files, LAMBDA f : MinuteKey(f) = mk)

\* for f in files: if f != chosen: delete.append(f)
Others(files, chosen) == SelectSeq(files, LAMBDA f : f # chosen)

\* for f in files: delete.append(f)
EveryFile(files, chosen) == files

\* for f in files[1:]: if f != chosen: delete.append(f)
OthersAfterFirst(files, chosen) ==
    SelectSeq(Tail(files), LAMBDA f : f # chosen)

\* The files of a group that go to delete under a rule.
Doomed(rule, files, chosen) ==
    CASE rule = "others" -> Others(files, chosen)
      [] rule = "every" -> EveryFile(files, chosen)
      [] rule = "after_first" -> OthersAfterFirst(files, chosen)

\* plan, with the rule for the files of a group that go to delete
PlanWith(disk, mt, pattern, strategy, rule) ==
    LET all_files == CollectFiles(disk, pattern)
        keys == GroupKeys(all_files)
        P[i \in 0..Len(keys)] ==
            IF i = 0 THEN [status |-> "ok", keep |-> << >>, delete |-> << >>]
            ELSE LET files == GroupOf(all_files, keys[i])
                     chosen == ChooseKeep(files, strategy, mt)
                 IN  IF P[i - 1].status # "ok" THEN P[i - 1]
                     ELSE IF Len(files) = 1
                     THEN [P[i - 1] EXCEPT
                             !.keep = Append(@, files[1])]
                     ELSE IF chosen.raised
                     THEN [status |-> "UnknownStrategy",
                           keep |-> << >>, delete |-> << >>]
                     ELSE [P[i - 1] EXCEPT
                             !.keep = Append(@, chosen.value),
                             !.delete = @ \o Doomed(rule, files,
                                                   chosen.value)]
    IN  P[Len(keys)]

\* plan without the test f != chosen.
PlanNoFilter(disk, mt, pattern, strategy) ==
    PlanWith(disk, mt, pattern, strategy, "every")

\* plan passing over the first file of each group.
PlanAfterFirst(disk, mt, pattern, strategy) ==
    PlanWith(disk, mt, pattern, strategy, "after_first")

\* plan
Plan(disk, mt, pattern, strategy) ==
    PlanWith(disk, mt, pattern, strategy, "others")

\* a call of plan(root, pattern, strategy)
CallPlan ==
    /\ \E pattern \in PATTERNS, strategy \in STRATEGIES \cup {"bogus"} :
          LET p == Plan(fs, st_mtime, pattern, strategy)
          IN  last' = [op |-> "plan", pattern |-> pattern,
                       strategy |-> strategy, status |-> p.status,
                       keep |-> p.keep, delete |-> p.delete]
    /\ prior' = << >>
    /\ UNCHANGED <<fs, dirs, MOVE_HISTORY, nextFile, relocated, cat_names,
                   run, st_mtime, tasks>>

\* The image directory holds any of the files, each with any time.
InitPopulation ==
    /\ \E present \in SUBSET (1..Len(PRUNE_NAMES)) :
          /\ fs = [p \in {PrunePath(i) : i \in present} |-> PruneRank(p)]
          /\ st_mtime \in [{PrunePath(i) : i \in present} -> MTIMES]
    /\ cat_names = CAT_NAMES
    /\ nextFile = 1
    /\ MOVE_HISTORY = << >>
    /\ last = Response("start", << >>, "", "ok", << >>, << >>)
    /\ prior = << >>
    /\ relocated = << >>
    /\ tasks = << >>

InitPlan ==
    /\ InitPopulation
    /\ dirs = {PRUNE_ROOT, PRUNE_SUB}
    /\ run = NoRun

NextPlan == CallPlan

SpecPlan == InitPlan /\ [][NextPlan]_vars

\* The files plan was given that have a minute key.
Bucketable(disk, pattern) ==
    {f \in Range(CollectFiles(disk, pattern)) : MinuteKey(f) # None}

\* The files plan was given that have the minute key mk.
Group(disk, pattern, mk) ==
    {f \in Bucketable(disk, pattern) : MinuteKey(f) = mk}

PlanServed ==
    last.op = "plan" /\ last.status = "ok" /\ last.strategy \in STRATEGIES

\* C13: for every population and each of the three strategies, keep and
\* remove are disjoint, together they are exactly the input files that have
\* a minute key, and a file whose name does not match is in neither.
C13_PlanPartitions ==
    PlanServed =>
        /\ Range(last.keep) \cap Range(last.delete) = {}
        /\ Range(last.keep) \cup Range(last.delete)
             = Bucketable(fs, last.pattern)
        /\ \A f \in DOMAIN fs :
              MinuteKey(f) = None =>
                  f \notin Range(last.keep) \cup Range(last.delete)

\* C13 witness: a plan over a population with a name that does not match,
\* with files kept and files to remove.
C13_Witness ==
    /\ PlanServed
    /\ last.delete # << >>
    /\ Len(last.keep) >= 2
    /\ \E f \in Range(CollectFiles(fs, last.pattern)) : MinuteKey(f) = None

\* The survivor the strategy names among the files of a group.
IsSurvivor(f, group, strategy, mt) ==
    LET Best(g) ==
            CASE strategy = "first_seen" -> TRUE
              [] strategy = "oldest" -> \A h \in group : mt[g] <= mt[h]
              [] strategy = "newest" -> \A h \in group : mt[g] >= mt[h]
    IN  /\ f \in group
        /\ Best(f)
        /\ \A g \in group : Best(g) => PruneRank(f) <= PruneRank(g)

\* The position in the input of the first file with minute key mk.
FirstSeen(disk, pattern, mk) ==
    CHOOSE r \in {PruneRank(f) : f \in Group(disk, pattern, mk)} :
        \A f \in Group(disk, pattern, mk) : r <= PruneRank(f)

\* C14: keep holds exactly one file per minute key, the one the strategy
\* names (the sole file of a singleton group, else the first in sorted
\* order, or the earliest in sorted order of those with the least or the
\* greatest modification time); keep is in first-seen order of the keys, and
\* every other member of a group is in remove.
C14_OneSurvivorPerKey ==
    PlanServed =>
        LET keys == {MinuteKey(f) : f \in Bucketable(fs, last.pattern)}
            n == Len(last.keep)
        IN  /\ n = Cardinality(keys)
            /\ \A mk \in keys :
                  \E i \in 1..n :
                      /\ IsSurvivor(last.keep[i],
                                    Group(fs, last.pattern, mk),
                                    last.strategy, st_mtime)
                      /\ Group(fs, last.pattern, mk) \ {last.keep[i]}
                           \subseteq Range(last.delete)
            /\ \A i, j \in 1..n :
                  i < j =>
                      FirstSeen(fs, last.pattern, MinuteKey(last.keep[i]))
                        < FirstSeen(fs, last.pattern,
                                    MinuteKey(last.keep[j]))

\* C14 witness: under newest, of three files of one minute the two latest
\* in sorted order share the greatest time and the earlier of them is
\* kept, ahead of the file of a later minute.
C14_Witness ==
    /\ PlanServed
    /\ last.strategy = "newest"
    /\ last.pattern = "**/processed_*.jpg"
    /\ {PrunePath(1), PrunePath(2), PrunePath(4), PrunePath(5)}
         \subseteq DOMAIN fs
    /\ st_mtime[PrunePath(1)] < st_mtime[PrunePath(2)]
    /\ st_mtime[PrunePath(2)] = st_mtime[PrunePath(5)]
    /\ last.keep = <<PrunePath(2), PrunePath(4)>>

\* C15: plan called with a strategy outside the three fails with
\* UnknownStrategy for every population of files with minute keys, also one
\* in which no minute key is shared, and returns no keep or remove.
C15_UnknownStrategyFails ==
    (/\ last.op = "plan"
     /\ last.strategy \notin STRATEGIES
     /\ Bucketable(fs, last.pattern) # {}) =>
        /\ last.status = "UnknownStrategy"
        /\ last.keep = << >>
        /\ last.delete = << >>

(***************************************************************************)
(* main of scripts/prune_by_minute.py, one step per call of plan and per   *)
(* f.unlink().  run holds the arguments, the lists plan returned, the      *)
(* index i of the next file of delete, the exit code ret (-1 while         *)
(* running), and for the properties the files unlink was called on         *)
(* (attempted) and the files present when the run started (before).        *)
(***************************************************************************)
Unlinked(disk, path) == [p \in DOMAIN disk \ {path} |-> disk[p]]

\* parse_args, the test of root, and plan
MainPlan ==
    /\ run.pc = "start"
    /\ IF run.strategy \notin STRATEGIES \/ PRUNE_ROOT \notin dirs
       THEN run' = [run EXCEPT !.pc = "done", !.ret = 2]
       ELSE LET p == Plan(fs, st_mtime, run.pattern, run.strategy)
            IN  IF p.status # "ok"
                THEN run' = [run EXCEPT !.pc = "done", !.ret = 1]
                ELSE IF run.delete_flag
                THEN run' = [run EXCEPT !.pc = "delete", !.keep = p.keep,
                                        !.delete = p.delete]
                ELSE run' = [run EXCEPT !.pc = "done", !.keep = p.keep,
                                        !.delete = p.delete, !.ret = 0]
    /\ UNCHANGED <<fs, dirs, MOVE_HISTORY, nextFile, last, prior, relocated,
                   cat_names, st_mtime, tasks>>

\* One turn of the loop over delete in which a failed unlink ends the run.
MainUnlinkAbort(io_ok) ==
    /\ run.pc = "delete"
    /\ run.i <= Len(run.delete)
    /\ LET f == run.delete[run.i]
       IN  IF io_ok /\ Exists(fs, f)
           THEN /\ fs' = Unlinked(fs, f)
                /\ st_mtime' = Unlinked(st_mtime, f)
                /\ run' = [run EXCEPT !.i = @ + 1,
                                      !.attempted = Append(@, f),
                                      !.removed = @ + 1]
           ELSE /\ run' = [run EXCEPT !.pc = "done", !.ret = 1,
                                      !.attempted = Append(@, f)]
                /\ UNCHANGED <<fs, st_mtime>>
    /\ UNCHANGED <<dirs, MOVE_HISTORY, nextFile, last, prior, relocated,
                   cat_names, tasks>>

\* One turn of the loop over delete: f.unlink() removes the file, or
\* raises and the failure is printed.
MainUnlink(io_ok) ==
    /\ run.pc = "delete"
    /\ run.i <= Len(run.delete)
    /\ LET f == run.delete[run.i]
       IN  IF io_ok /\ Exists(fs, f)
           THEN /\ fs' = Unlinked(fs, f)
                /\ st_mtime' = Unlinked(st_mtime, f)
                /\ run' = [run EXCEPT !.i = @ + 1,
                                      !.attempted = Append(@, f),
                                      !.removed = @ + 1]
           ELSE /\ run' = [run EXCEPT !.i = @ + 1,
                                      !.attempted = Append(@, f)]
                /\ UNCHANGED <<fs, st_mtime>>
    /\ UNCHANGED <<dirs, MOVE_HISTORY, nextFile, last, prior, relocated,
                   cat_names, tasks>>

\* the loop is over: return 0
MainFinish ==
    /\ run.pc = "delete"
    /\ run.i > Len(run.delete)
    /\ run' = [run EXCEPT !.pc = "done", !.ret = 0]
    /\ UNCHANGED <<fs, dirs, MOVE_HISTORY, nextFile, last, prior, relocated,
                   cat_names, st_mtime, tasks>>

InitPrune ==
    /\ InitPopulation
    /\ \/ dirs = {PRUNE_ROOT, PRUNE_SUB}
       \/ dirs = {} /\ fs = << >>
    /\ \E strategy \in STRATEGIES \cup {"bogus"}, pattern \in PATTERNS,
          delete_flag \in BOOLEAN :
            run = [pc |-> "start", strategy |-> strategy,
                   pattern |-> pattern, delete_flag |-> delete_flag,
                   keep |-> << >>, delete |-> << >>, i |-> 1,
                   attempted |-> << >>, removed |-> 0, ret |-> -1,
                   before |-> DOMAIN fs]

NextPrune ==
    \/ MainPlan
    \/ \E io_ok \in BOOLEAN : MainUnlink(io_ok)
    \/ MainFinish

SpecPrune == InitPrune /\ [][NextPrune]_vars

\* The files of the start of the run that are gone.
Lost == run.before \ DOMAIN fs

\* C16: a run with the delete flag calls unlink on every file of remove, in
\* order, also after a failure, and ends with exit code 0; a run only
\* deletes files of remove, and a dry run deletes nothing.
C16_DeletesAllOfRemove ==
    run.pc # "none" =>
        /\ Lost \subseteq Range(run.delete)
        /\ ~run.delete_flag => Lost = {}
        /\ run.pc = "delete" =>
              run.attempted = SubSeq(run.delete, 1, run.i - 1)
        /\ (/\ run.pc = "done"
            /\ run.strategy \in STRATEGIES
            /\ PRUNE_ROOT \in dirs) =>
              /\ run.ret = 0
              /\ run.delete_flag => run.attempted = run.delete

\* C16 witness: a finished run whose first unlink failed and whose second
\* removed its file.
C16_Witness ==
    /\ run.pc = "done" /\ run.ret = 0 /\ run.delete_flag
    /\ Len(run.delete) >= 2
    /\ run.attempted = run.delete
    /\ Exists(fs, run.delete[1])
    /\ ~Exists(fs, run.delete[2])

\* A run with the delete flag is over and every unlink removed its file.
PrunedClean ==
    /\ run.pc = "done" /\ run.ret = 0 /\ run.delete_flag
    /\ run.removed = Len(run.delete)

\* Every minute key of the files the pattern collects has one file.
OnePerKey(disk, pattern) ==
    \A f, g \in Bucketable(disk, pattern) :
        MinuteKey(f) = MinuteKey(g) => f = g

\* C20 as claimed: after a run in which every deletion succeeded one file
\* per minute key remains, and plan on what remains, with any strategy,
\* returns an empty remove and the keep list of the run.
C20_ReplanSameList ==
    PrunedClean =>
        /\ OnePerKey(fs, run.pattern)
        /\ \A strategy \in STRATEGIES :
              LET p == Plan(fs, st_mtime, run.pattern, strategy)
              IN  /\ p.status = "ok"
                  /\ p.delete = << >>
                  /\ p.keep = run.keep

\* C20 amended: after a run in which every deletion succeeded one file per
\* minute key remains, and plan on what remains, with any strategy,
\* returns an empty remove and a keep list holding the files of the run's
\* keep list, in the same order when the pattern collects the files of one
\* directory.
C20_ReplanSameFiles ==
    PrunedClean =>
        /\ OnePerKey(fs, run.pattern)
        /\ \A strategy \in STRATEGIES :
              LET p == Plan(fs, st_mtime, run.pattern, strategy)
              IN  /\ p.status = "ok"
                  /\ p.delete = << >>
                  /\ Len(p.keep) = Len(run.keep)
                  /\ Range(p.keep) = Range(run.keep)
                  /\ run.pattern = "processed_*.jpg" => p.keep = run.keep

\* C20 witness: a run that removed files of two minute keys has ended.
C20_Witness ==
    /\ PrunedClean
    /\ Len(run.delete) >= 2
    /\ Len(run.keep) >= 2
    /\ \E i, j \in 1..Len(run.delete) :
          MinuteKey(run.delete[i]) # MinuteKey(run.delete[j])

(***************************************************************************)
(* Requests in flight.  classify and undo are coroutines of one event      *)
(* loop (async def, main.py:102 and 126) and contain no await: once the    *)
(* loop starts a handler it runs to its return before another request is   *)
(* started.  Three requests have been submitted: two classify requests     *)
(* for files of the same name in two feeders, and an undo of the first.    *)
(* The loop serves them in any order.  seen is the disk as it was when     *)
(* the request was submitted.                                              *)
(***************************************************************************)
FEEDER2 == <<"officefeeder2", "cats">>
SOURCE_PATH2 == MkPath(FEEDER2, "a", << >>, ".jpg")

Task(op, image_id, category, disk) ==
    [op |-> op, image_id |-> image_id, category |-> category,
     pc |-> "pending", status |-> "", ret |-> << >>, seen |-> disk]

Served(t) ==
    [tasks EXCEPT ![t].pc = "done", ![t].status = last'.status,
                  ![t].ret = last'.ret]

\* The handler with its occupancy check made when the request was
\* submitted and its move made when the loop comes back to it.
ServeClassifyStale(t) ==
    LET image_id == tasks[t].image_id
        category == tasks[t].category
        orig_path == OrigPathOf(image_id)
        target_dir == Append(CLASSIFIED_ROOT, category)
        target_path == UniquePath(tasks[t].seen, InDir(target_dir, orig_path))
    IN  /\ tasks[t].pc = "pending" /\ tasks[t].op = "classify"
        /\ ClassifyCheck(fs, image_id, category) = "ok"
        /\ prior' = PriorOf(last, fs, MOVE_HISTORY)
        /\ dirs' = dirs \cup {target_dir}
        /\ fs' = Move(fs, orig_path, target_path)
        /\ MOVE_HISTORY' = Append(MOVE_HISTORY,
              [image_id |-> image_id, original_path |-> orig_path,
               new_path |-> target_path])
        /\ relocated' = Append(relocated, fs[orig_path])
        /\ last' = Response("classify", image_id, category, "ok",
                            <<target_path>>, <<orig_path, target_path>>)
        /\ tasks' = Served(t)
        /\ UNCHANGED <<nextFile, cat_names, run, st_mtime>>

\* The loop runs the classify handler of request t from start to return.
ServeClassify(t) ==
    /\ tasks[t].pc = "pending" /\ tasks[t].op = "classify"
    /\ Classify(tasks[t].image_id, tasks[t].category, TRUE)
    /\ tasks' = Served(t)

\* The loop runs the undo handler of request t from start to return.
ServeUndo(t) ==
    /\ tasks[t].pc = "pending" /\ tasks[t].op = "undo"
    /\ Undo(tasks[t].image_id, TRUE)
    /\ tasks' = Served(t)

InitConcurrent ==
    /\ \E taken \in SUBSET TakenNames, category \in {"unknown", "tom"} :
          /\ fs = [p \in taken \cup {SOURCE_PATH, SOURCE_PATH2} |->
                     IF p = SOURCE_PATH THEN 1
                     ELSE IF p = SOURCE_PATH2 THEN 2 ELSE EarlierFile(p)]
          /\ dirs = {CLASSIFIED_ROOT, FEEDER, FEEDER2} \cup
                    (IF taken = {} THEN {} ELSE {TARGET_DIR})
          /\ tasks = <<Task("classify", <<"u1", SOURCE_PATH>>, "unknown", fs),
                       Task("classify", <<"u2", SOURCE_PATH2>>, category, fs),
                       Task("undo", <<"u1", SOURCE_PATH>>, "", fs)>>
    /\ nextFile = 3
    /\ MOVE_HISTORY = << >>
    /\ last = Response("start", << >>, "", "ok", << >>, << >>)
    /\ prior = << >>
    /\ relocated = << >>
    /\ cat_names = CAT_NAMES
    /\ run = NoRun
    /\ st_mtime = << >>

NextConcurrent ==
    \/ \E t \in DOMAIN tasks : ServeClassify(t)
    \/ \E t \in DOMAIN tasks : ServeUndo(t)

SpecConcurrent == InitConcurrent /\ [][NextConcurrent]_vars

\* C18: however the loop orders the requests, no file that was on disk
\* when they were submitted is overwritten, and two classify requests, when
\* no undo has taken a file back, end at two distinct paths, each holding
\* the file of its request.
C18_AtomicCheckAndMove ==
    /\ \A t \in DOMAIN tasks : Files(tasks[t].seen) \subseteq Files(fs)
    /\ \A t, u \in DOMAIN tasks :
          (/\ t # u
           /\ tasks[t].op = "classify" /\ tasks[t].pc = "done"
           /\ tasks[u].op = "classify" /\ tasks[u].pc = "done"
           /\ \A v \in DOMAIN tasks :
                 tasks[v].op = "undo" => tasks[v].status # "ok") =>
              /\ tasks[t].status = "ok" /\ tasks[u].status = "ok"
              /\ tasks[t].ret # tasks[u].ret
              /\ fs[tasks[t].ret[1]]
                   = tasks[t].seen[OrigPathOf(tasks[t].image_id)]

\* C18 witness: both classify requests went to the same category with its
\* first name free, the second request was served first, and the two files
\* are at a.jpg and a_1.jpg.
C18_Witness ==
    /\ Len(tasks) = 3
    /\ tasks[1].pc = "done" /\ tasks[2].pc = "done"
    /\ tasks[3].status # "ok"
    /\ tasks[2].ret = <<TARGET_PATH>>
    /\ tasks[1].ret = <<WithName(TARGET_PATH, 1)>>
    /\ fs[TARGET_PATH] = 2
    /\ fs[WithName(TARGET_PATH, 1)] = 1
====
